---- MODULE Spec2Model ----
(***************************************************************************)
(* Model of app/services.py: the DataLoader lazy caches, the five-stage    *)
(* UserMatcher.match_users cascade and SemanticSearcher.search_transactions *)
(* with its cosine-similarity threshold, as reached from app/endpoints.py.  *)
(*                                                                         *)
(* Strings are sequences of one-character strings.  Scores are exact       *)
(* rationals [n |-> numerator, d |-> denominator]; reported scores are     *)
(* integers in hundredths (round(x, 2) * 100).                             *)
(***************************************************************************)
EXTENDS Integers, Sequences, FiniteSets, TLC

VARIABLES
    usersFile,          \* data/users.csv
    transactionsFile,   \* data/transactions.csv
    embed,              \* the sentence-transformer: text -> vector
    threshold,          \* settings.SIMILARITY_THRESHOLD, in thousandths
    heap,               \* dict objects: object id -> table (insertion-ordered)
    users_cache,        \* DataLoader._users_cache: None or an object id
    transactions_cache, \* DataLoader._transactions_cache: None or an object id
    model,              \* SemanticSearcher._model: None or the model instance
    loads,              \* how many times each lazy initialisation was executed
    request,            \* sequential specs: the request being answered
    response,           \* sequential specs: the endpoint's answer
    th                  \* threaded spec: per-thread position and locals

vars == <<usersFile, transactionsFile, embed, threshold, heap, users_cache,
          transactions_cache, model, loads, request, response, th>>

\* None, as a cache attribute's value: no object (object ids start at 1)
None == 0

\* a CSV file: whether it exists, whether its header has the columns the
\* loader asks for, and its rows as [id, val] records
File(rows) == [exists |-> TRUE, columns |-> TRUE, rows |-> rows]
NoFile == [exists |-> FALSE, columns |-> TRUE, rows |-> <<>>]
BadHeader(rows) == [exists |-> TRUE, columns |-> FALSE, rows |-> rows]

NoRequest == [kind |-> "none"]
NoResponse == [status |-> 0]

(***************************************************************************)
(* Python str operations used by match_users and search_transactions.      *)
(***************************************************************************)

IsSpace(c) == c = " "

\* str.lower() on the model's alphabet
LowerChar(c) == IF c = "A" THEN "a" ELSE IF c = "B" THEN "b" ELSE c

Lower(s) == [i \in 1..Len(s) |-> LowerChar(s[i])]

RECURSIVE LStrip(_)
LStrip(s) == IF s # <<>> /\ IsSpace(Head(s)) THEN LStrip(Tail(s)) ELSE s

RECURSIVE RStrip(_)
RStrip(s) ==
    IF s # <<>> /\ IsSpace(s[Len(s)]) THEN RStrip(SubSeq(s, 1, Len(s) - 1)) ELSE s

\* str.strip()
Strip(s) == RStrip(LStrip(s))

\* str.split(): the maximal runs of non-whitespace characters, in order
RECURSIVE SplitFrom(_, _, _)
SplitFrom(s, cur, acc) ==
    IF s = <<>> THEN (IF cur = <<>> THEN acc ELSE Append(acc, cur))
    ELSE IF IsSpace(Head(s))
         THEN SplitFrom(Tail(s), <<>>, IF cur = <<>> THEN acc ELSE Append(acc, cur))
         ELSE SplitFrom(Tail(s), Append(cur, Head(s)), acc)

Split(s) == SplitFrom(s, <<>>, <<>>)

\* x in s, for strings
IsSubstring(x, s) ==
    \E i \in 0..(Len(s) - Len(x)) : SubSeq(s, i + 1, i + Len(x)) = x

\* x in tokens, for a list
InList(x, tokens) == \E i \in 1..Len(tokens) : tokens[i] = x

\* code points, for the ordering of sorted()
Ord(c) == CASE c = " " -> 32 [] c = "A" -> 65 [] c = "B" -> 66
            [] c = "a" -> 97 [] c = "b" -> 98 [] OTHER -> 0

RECURSIVE StrLess(_, _)
StrLess(x, y) ==
    IF y = <<>> THEN FALSE
    ELSE IF x = <<>> THEN TRUE
    ELSE IF Ord(Head(x)) # Ord(Head(y)) THEN Ord(Head(x)) < Ord(Head(y))
    ELSE StrLess(Tail(x), Tail(y))

RECURSIVE InsertToken(_, _)
InsertToken(t, sorted) ==
    IF sorted = <<>> THEN <<t>>
    ELSE IF StrLess(t, Head(sorted)) THEN <<t>> \o sorted
    ELSE <<Head(sorted)>> \o InsertToken(t, Tail(sorted))

RECURSIVE SortTokens(_)
SortTokens(tokens) ==
    IF tokens = <<>> THEN <<>>
    ELSE InsertToken(tokens[Len(tokens)], SortTokens(SubSeq(tokens, 1, Len(tokens) - 1)))

RECURSIVE JoinTokens(_)
JoinTokens(tokens) ==
    IF tokens = <<>> THEN <<>>
    ELSE IF Len(tokens) = 1 THEN tokens[1]
    ELSE tokens[1] \o <<" ">> \o JoinTokens(Tail(tokens))

\* length of a longest common subsequence
RECURSIVE LCS(_, _)
LCS(x, y) ==
    IF x = <<>> \/ y = <<>> THEN 0
    ELSE IF Head(x) = Head(y) THEN 1 + LCS(Tail(x), Tail(y))
    ELSE LET p == LCS(Tail(x), y)
             q == LCS(x, Tail(y))
         IN IF p >= q THEN p ELSE q

(***************************************************************************)
(* rapidfuzz.fuzz.token_sort_ratio(s1, s2) / 100.0: both strings have      *)
(* their tokens sorted and re-joined, then the normalised Indel similarity *)
(* 2 * LCS / (len1 + len2) is taken (1 when both are empty).               *)
(***************************************************************************)
TokenSortRatio(s1, s2) ==
    LET a == JoinTokens(SortTokens(Split(s1)))
        b == JoinTokens(SortTokens(Split(s2)))
    IN IF Len(a) + Len(b) = 0 THEN [n |-> 1, d |-> 1]
       ELSE [n |-> 2 * LCS(a, b), d |-> Len(a) + Len(b)]

(***************************************************************************)
(* Exact rational arithmetic on scores.                                    *)
(***************************************************************************)
RLess(a, b) == a.n * b.d < b.n * a.d
RLeq(a, b) == a.n * b.d <= b.n * a.d
REq(a, b) == a.n * b.d = b.n * a.d

\* round(score, 2), in hundredths; an exact tie goes to the even neighbour
Round2(r) ==
    LET q == (100 * r.n) \div r.d
        rem == (100 * r.n) % r.d
    IN IF 2 * rem < r.d THEN q
       ELSE IF 2 * rem > r.d THEN q + 1
       ELSE IF q % 2 = 0 THEN q ELSE q + 1

(***************************************************************************)
(* Insertion-ordered dict: a sequence of [id, val] records, ids distinct.   *)
(***************************************************************************)
DictHas(dict, k) == \E i \in 1..Len(dict) : dict[i].id = k

DictGet(dict, k) == dict[CHOOSE i \in 1..Len(dict) : dict[i].id = k].val

\* dict[k] = v: an existing key keeps its position, a new key goes last
DictSet(dict, k, v) ==
    IF DictHas(dict, k)
    THEN [i \in 1..Len(dict) |-> IF dict[i].id = k THEN [id |-> k, val |-> v] ELSE dict[i]]
    ELSE Append(dict, [id |-> k, val |-> v])

(***************************************************************************)
(* DataLoader: what a finished load leaves in the cache for a given file.  *)
(* A file without the id/name (id/description) columns yields no row.      *)
(***************************************************************************)
FileRows(file) == IF file.exists /\ file.columns THEN file.rows ELSE <<>>

RECURSIVE InsertRows(_, _)
InsertRows(dict, rows) ==
    IF rows = <<>> THEN dict
    ELSE InsertRows(DictSet(dict, Head(rows).id, Head(rows).val), Tail(rows))

LoadTable(file) == InsertRows(<<>>, FileRows(file))

(***************************************************************************)
(* UserMatcher.match_users                                                 *)
(***************************************************************************)
FUZZY_MATCH_THRESHOLD == 70

NoScore == [n |-> -1, d |-> 1]

FuzzyThreshold == [n |-> FUZZY_MATCH_THRESHOLD, d |-> 100]

\* faulty variant: an exact match scored like a token match
ExactMatchScoreAsToken == [n |-> 95, d |-> 100]

\* Strategy 1 stores 1.0
ExactMatchScore == [n |-> 1, d |-> 1]

\* faulty variant: the ratio added without the factor 0.1
SubstringScoreUnscaled(user_name_lower, description) ==
    [n |-> 85 * Len(description) + 100 * Len(user_name_lower),
     d |-> 100 * Len(description)]

\* Strategy 3: 0.85 + (len(name) / len(description)) * 0.1
SubstringScore(user_name_lower, description) ==
    [n |-> 85 * Len(description) + 10 * Len(user_name_lower),
     d |-> 100 * Len(description)]

\* faulty variant: every token score replaces the best one
RECURSIVE BestTokenScoreLast(_, _, _)
BestTokenScoreLast(user_name_lower, tokens, best) ==
    IF tokens = <<>> THEN best
    ELSE BestTokenScoreLast(user_name_lower, Tail(tokens),
                            TokenSortRatio(user_name_lower, Head(tokens)))

\* the loop of Strategy 4: best_token_score starts at 0 and only a strictly
\* greater token score replaces it
RECURSIVE BestTokenScore(_, _, _)
BestTokenScore(user_name_lower, tokens, best) ==
    IF tokens = <<>> THEN best
    ELSE LET token_score == TokenSortRatio(user_name_lower, Head(tokens))
         IN BestTokenScore(user_name_lower, Tail(tokens),
                           IF RLess(best, token_score) THEN token_score ELSE best)

\* one iteration of the loop over users.items(): the entity's unrounded score,
\* or NoScore when no strategy stores one
UserScore(user_name, description, tokens) ==
    LET user_name_lower == Lower(Strip(user_name))
        best_token_score == BestTokenScore(user_name_lower, tokens, [n |-> 0, d |-> 1])
        full_score == TokenSortRatio(user_name_lower, description)
    IN IF user_name_lower = description THEN ExactMatchScore
       ELSE IF InList(user_name_lower, tokens) THEN [n |-> 95, d |-> 100]
       ELSE IF IsSubstring(user_name_lower, description)
            THEN SubstringScore(user_name_lower, description)
       ELSE IF RLeq(FuzzyThreshold, best_token_score) THEN best_token_score
       ELSE IF RLeq(FuzzyThreshold, full_score) THEN full_score
       ELSE NoScore

\* the matches dict after the loop, in users' iteration order
RECURSIVE Matches(_, _, _)
Matches(users, description, tokens) ==
    IF users = <<>> THEN <<>>
    ELSE LET score == UserScore(Head(users).val, description, tokens)
             rest == Matches(Tail(users), description, tokens)
         IN IF score = NoScore THEN rest
            ELSE <<[id |-> Head(users).id, val |-> score]>> \o rest

\* faulty variant: an equal key is placed before the ones already there
RECURSIVE InsertDescUnstable(_, _)
InsertDescUnstable(item, sorted) ==
    IF sorted = <<>> THEN <<item>>
    ELSE IF RLeq(Head(sorted).val, item.val) THEN <<item>> \o sorted
    ELSE <<Head(sorted)>> \o InsertDescUnstable(item, Tail(sorted))

\* sorted(..., key=score, reverse=True): stable, equal keys keep their order
RECURSIVE InsertDesc(_, _)
InsertDesc(item, sorted) ==
    IF sorted = <<>> THEN <<item>>
    ELSE IF RLess(Head(sorted).val, item.val) THEN <<item>> \o sorted
    ELSE <<Head(sorted)>> \o InsertDesc(item, Tail(sorted))

\* faulty variant: the matches left in the dict's order
SortedMatchesUnsorted(matches) == matches

RECURSIVE SortedMatches(_)
SortedMatches(matches) ==
    IF matches = <<>> THEN <<>>
    ELSE InsertDesc(matches[Len(matches)],
                    SortedMatches(SubSeq(matches, 1, Len(matches) - 1)))

\* the scoring part of match_users, on the tables it was handed
MatchUsers(transaction_id, transactions, users) ==
    IF ~DictHas(transactions, transaction_id) THEN [result |-> <<>>, count |-> 0]
    ELSE LET description == Lower(Strip(DictGet(transactions, transaction_id)))
             tokens == Split(description)
             sorted_matches == SortedMatches(Matches(users, description, tokens))
             result == [i \in 1..Len(sorted_matches) |->
                          [id |-> sorted_matches[i].id,
                           match_metric |-> Round2(sorted_matches[i].val)]]
         IN IF description = <<>> \/ users = <<>> THEN [result |-> <<>>, count |-> 0]
            ELSE [result |-> result, count |-> Len(result)]

\* faulty variant: an unknown id answered with 404
MatchUsersEndpointNotFound(transaction_id, transactions, users) ==
    LET r == MatchUsers(transaction_id, transactions, users)
    IN IF DictHas(transactions, transaction_id)
       THEN [status |-> 200, users |-> r.result, total_number_of_matches |-> r.count]
       ELSE [status |-> 404, users |-> <<>>, total_number_of_matches |-> 0]

\* GET /match-users/{transaction_id}
MatchUsersEndpoint(transaction_id, transactions, users) ==
    LET r == MatchUsers(transaction_id, transactions, users)
    IN [status |-> 200, users |-> r.result, total_number_of_matches |-> r.count]

(***************************************************************************)
(* SemanticSearcher.search_transactions                                    *)
(*                                                                         *)
(* Embeddings are integer vectors whose norms are integers.  A similarity  *)
(* is kept as [dot, norms]: cos = dot / (norms + 1e-10) and the normalised *)
(* score is (cos + 1) / 2.  The comparisons below are the exact ones of    *)
(* real arithmetic: 1e-10 is smaller than every gap between two distinct   *)
(* values of the model, so it decides a comparison only where the values   *)
(* without it are equal.                                                   *)
(***************************************************************************)
DEFAULT_SIMILARITY_THRESHOLD == 300

Dot(u, v) == u[1] * v[1] + u[2] * v[2]

Abs(x) == IF x < 0 THEN -x ELSE x

\* np.linalg.norm
Norm(v) == CHOOSE r \in 0..(Abs(v[1]) + Abs(v[2])) : r * r = Dot(v, v)

Similarity(query_embedding, description_embedding) ==
    [dot |-> Dot(query_embedding, description_embedding),
     norms |-> Norm(query_embedding) * Norm(description_embedding)]

\* (sim.dot / (sim.norms + 1e-10) + 1) / 2 > tn / td
NormalizedGreater(sim, tn, td) ==
    LET A == td * (sim.dot + sim.norms) - 2 * tn * sim.norms
    IN A > 0 \/ (A = 0 /\ td > 2 * tn)

\* round(normalized_similarity, 2), in hundredths: the number of half-way
\* points (2j - 1)/200 below the score (the score is never on one of them)
RoundNormalized(sim) ==
    Cardinality({j \in 1..100 : NormalizedGreater(sim, 2 * j - 1, 200)})

\* faulty variant: >= instead of >
PassesThresholdNonStrict(sim, thr) ==
    1000 * (sim.dot + sim.norms) - 2 * thr * sim.norms >= 0

\* the filter of line 195, threshold in thousandths
PassesThreshold(sim, thr) == NormalizedGreater(sim, thr, 1000)

\* the matches dict after the loop over the transactions, rounded scores
RECURSIVE SimilarityMatches(_, _, _, _)
SimilarityMatches(query_embedding, transactions, emb, thr) ==
    IF transactions = <<>> THEN <<>>
    ELSE LET sim == Similarity(query_embedding, emb[Head(transactions).val])
             rest == SimilarityMatches(query_embedding, Tail(transactions), emb, thr)
         IN IF PassesThreshold(sim, thr)
            THEN <<[id |-> Head(transactions).id, val |-> RoundNormalized(sim)]>> \o rest
            ELSE rest

\* sorted(..., key=rounded score, reverse=True): stable
RECURSIVE InsertDescInt(_, _)
InsertDescInt(item, sorted) ==
    IF sorted = <<>> THEN <<item>>
    ELSE IF Head(sorted).val < item.val THEN <<item>> \o sorted
    ELSE <<Head(sorted)>> \o InsertDescInt(item, Tail(sorted))

RECURSIVE SortedSimilar(_)
SortedSimilar(matches) ==
    IF matches = <<>> THEN <<>>
    ELSE InsertDescInt(matches[Len(matches)],
                       SortedSimilar(SubSeq(matches, 1, Len(matches) - 1)))

\* the scoring part of search_transactions, on the table it was handed
SearchTransactions(query, transactions, emb, thr) ==
    IF transactions = <<>> THEN [result |-> <<>>, tokens_used |-> 0]
    ELSE LET sorted_matches ==
                 SortedSimilar(SimilarityMatches(emb[query], transactions, emb, thr))
         IN [result |-> [i \in 1..Len(sorted_matches) |->
                            [id |-> sorted_matches[i].id,
                             embedding |-> sorted_matches[i].val]],
             tokens_used |-> Len(Split(query))]

\* GET /search-similar-descriptions?query=...
SearchEndpoint(query, transactions, emb, thr) ==
    LET r == SearchTransactions(query, transactions, emb, thr)
    IN [status |-> 200, transactions |-> r.result,
        total_number_of_tokens_used |-> r.tokens_used]

(***************************************************************************)
(* Inputs: the two CSV files, the request parameters, the embeddings and   *)
(* the configured threshold.                                               *)
(***************************************************************************)
MaxLen == 2
MaxQueryLen == 3

RECURSIVE StringsUpTo(_, _)
StringsUpTo(alphabet, n) ==
    IF n = 0 THEN {<<>>}
    ELSE LET shorter == StringsUpTo(alphabet, n - 1)
         IN shorter \cup {Append(s, c) : s \in shorter, c \in alphabet}

\* user names: every string over {a, b} up to MaxLen, and names that need
\* trimming or lower-casing, hold two tokens, or are near a longer token
Names ==
    StringsUpTo({"a", "b"}, MaxLen)
    \cup {<<" ">>, <<" ", "A", " ">>, <<"a", "b", "a">>,
          <<"a", " ", "b">>, <<"b", " ", "a">>}

\* transaction descriptions
Descriptions ==
    StringsUpTo({"a", "b"}, MaxLen)
    \cup {<<" ">>, <<" ", "A", "b", " ">>, <<"a", " ", "b">>, <<"a", "b", "b", "a">>,
          <<"a", "b", "b", "a", " ", "a", "b">>}

UserIds == {"u1", "u2"}
TransactionIds == {"t1", "t2"}
RequestedIds == {"t1", "t3"}

RowsOver(ids, texts) ==
    UNION {[1..k -> [id : ids, val : texts]] : k \in 0..Cardinality(ids)}

UsersFiles ==
    {NoFile, BadHeader(<<[id |-> "u1", val |-> <<"a">>]>>)}
    \cup {File(rows) : rows \in RowsOver(UserIds, Names)}

\* match_users reads one description: one transaction row is enough
MatchTransactionsFiles ==
    {NoFile, BadHeader(<<[id |-> "t1", val |-> <<"a">>]>>), File(<<>>)}
    \cup {File(<<[id |-> "t1", val |-> x]>>) : x \in Descriptions}

Queries == StringsUpTo({"a", " "}, MaxQueryLen)
DocTexts == {<<"a">>, <<"b">>}
SearchTransactionsFiles ==
    {NoFile} \cup {File(rows) : rows \in RowsOver(TransactionIds, DocTexts)}

Vectors == {<<0, 0>>, <<3, 4>>, <<-4, 3>>, <<5, 12>>}
Thresholds == {DEFAULT_SIMILARITY_THRESHOLD, 500, 620}

NoThreads == <<>>
NoLoads == [users |-> 0, transactions |-> 0, model |-> 0]

(***************************************************************************)
(* The lazy getters run to completion (one request at a time, as the       *)
(* async endpoints run them on the event loop).                            *)
(***************************************************************************)
\* DataLoader.get_users / get_transactions: [ref, heap, loaded]
GetTable(cache, file, hp) ==
    IF cache # None THEN [ref |-> cache, heap |-> hp, loaded |-> 0]
    ELSE [ref |-> Len(hp) + 1, heap |-> Append(hp, LoadTable(file)), loaded |-> 1]

\* GET /match-users/{transaction_id}: match_users loads both tables first
MatchUsersRequest(transaction_id) ==
    LET t == GetTable(transactions_cache, transactionsFile, heap)
        u == GetTable(users_cache, usersFile, t.heap)
    IN /\ transactions_cache' = t.ref
       /\ users_cache' = u.ref
       /\ heap' = u.heap
       /\ loads' = [loads EXCEPT !.transactions = @ + t.loaded, !.users = @ + u.loaded]
       /\ request' = [kind |-> "match", arg |-> transaction_id]
       /\ response' = MatchUsersEndpoint(transaction_id, u.heap[t.ref], u.heap[u.ref])
       /\ UNCHANGED <<usersFile, transactionsFile, embed, threshold, model, th>>

InitMatch ==
    /\ usersFile \in UsersFiles
    /\ transactionsFile \in MatchTransactionsFiles
    /\ embed = <<>>
    /\ threshold = DEFAULT_SIMILARITY_THRESHOLD
    /\ heap = <<>>
    /\ users_cache = None
    /\ transactions_cache = None
    /\ model = None
    /\ loads = NoLoads
    /\ request = NoRequest
    /\ response = NoResponse
    /\ th = NoThreads

NextMatch == \E transaction_id \in RequestedIds : MatchUsersRequest(transaction_id)

SpecMatch == InitMatch /\ [][NextMatch]_vars

\* GET /search-similar-descriptions: an empty query is rejected by
\* Query(min_length=1) before search_transactions is called
SearchRejected ==
    /\ request = NoRequest
    /\ request' = [kind |-> "search", arg |-> <<>>]
    /\ response' = [status |-> 422]
    /\ UNCHANGED <<usersFile, transactionsFile, embed, threshold, heap, users_cache,
                   transactions_cache, model, loads, th>>

\* One search per behaviour: the result of a call depends on the table, the
\* embeddings and the threshold only.  The query's embedding v is drawn with
\* the request; a query equal to a description has that description's embedding.
SearchRequest(query, v) ==
    LET t == GetTable(transactions_cache, transactionsFile, heap)
        transactions == t.heap[t.ref]
        emb == [x \in DocTexts \cup {query} |-> IF x \in DocTexts THEN embed[x] ELSE v]
        loadModel == transactions # <<>> /\ model = None
    IN /\ request = NoRequest
       /\ query # <<>>
       /\ transactions_cache' = t.ref
       /\ heap' = t.heap
       /\ embed' = emb
       /\ model' = IF loadModel THEN loads.model + 1 ELSE model
       /\ loads' = [loads EXCEPT !.transactions = @ + t.loaded,
                                 !.model = @ + (IF loadModel THEN 1 ELSE 0)]
       /\ request' = [kind |-> "search", arg |-> query]
       /\ response' = SearchEndpoint(query, transactions, emb, threshold)
       /\ UNCHANGED <<usersFile, transactionsFile, threshold, users_cache, th>>

InitSearch ==
    /\ usersFile = NoFile
    /\ transactionsFile \in SearchTransactionsFiles
    /\ embed \in [DocTexts -> Vectors]
    /\ threshold \in Thresholds
    /\ heap = <<>>
    /\ users_cache = None
    /\ transactions_cache = None
    /\ model = None
    /\ loads = NoLoads
    /\ request = NoRequest
    /\ response = NoResponse
    /\ th = NoThreads

NextSearch ==
    \/ SearchRejected
    \/ \E query \in Queries, v \in Vectors : SearchRequest(query, v)

SpecSearch == InitSearch /\ [][NextSearch]_vars

(***************************************************************************)
(* Requests served by parallel threads: every thread runs one request and  *)
(* the getters are interleaved line by line.                                *)
(*   check  : if cls._cache is not None: return cls._cache   (21-22, 41-42) *)
(*   assign : cls._cache = {}                                (24, 44)       *)
(*   exists : if not os.path.exists(csv_path): return ...    (27-28, 47-48) *)
(*   read   : one row of the for loop                        (32-34, 52-54) *)
(*   ret    : return cls._cache                              (36, 56)       *)
(***************************************************************************)
NumThreads == 2

Threads == 1..NumThreads

IdleThread ==
    [pc |-> "idle", kind |-> "none", arg |-> <<>>, which |-> "none", rows |-> <<>>,
     transactions |-> None, users |-> None,
     tReturned |-> FALSE, tSnap |-> <<>>, uReturned |-> FALSE, uSnap |-> <<>>,
     resp |-> NoResponse]

\* ids and queries are both strings here (sequences of characters)
ThreadRequests ==
    {[kind |-> "match", arg |-> <<"t1">>], [kind |-> "search", arg |-> <<"a">>]}

CacheOf(which) == IF which = "users" THEN users_cache ELSE transactions_cache
FileOf(which) == IF which = "users" THEN usersFile ELSE transactionsFile

SetCache(which, ref) ==
    /\ users_cache' = IF which = "users" THEN ref ELSE users_cache
    /\ transactions_cache' = IF which = "users" THEN transactions_cache ELSE ref

\* the caller's continuation once get_transactions / get_users has returned ref
Returned(t, ref) ==
    IF th[t].which = "transactions"
    THEN [th[t] EXCEPT !.transactions = ref, !.tReturned = TRUE, !.tSnap = heap[ref],
                       !.which = IF th[t].kind = "match" THEN "users" ELSE "none",
                       !.pc = IF th[t].kind = "match" THEN "check" ELSE "empty_check"]
    ELSE [th[t] EXCEPT !.users = ref, !.uReturned = TRUE, !.uSnap = heap[ref],
                       !.which = "none", !.pc = "score_match"]

\* the endpoint calls match_users / search_transactions, whose first line is
\* DataLoader.get_transactions()
Start(t, r) ==
    /\ th[t].pc = "idle"
    /\ th' = [th EXCEPT ![t] = [@ EXCEPT !.pc = "check", !.kind = r.kind, !.arg = r.arg,
                                         !.which = "transactions"]]
    /\ UNCHANGED <<usersFile, transactionsFile, embed, threshold, heap, users_cache,
                   transactions_cache, model, loads, request, response>>

Check(t) ==
    /\ th[t].pc = "check"
    /\ th' = [th EXCEPT ![t] = IF CacheOf(th[t].which) # None
                               THEN Returned(t, CacheOf(th[t].which))
                               ELSE [@ EXCEPT !.pc = "assign"]]
    /\ UNCHANGED <<usersFile, transactionsFile, embed, threshold, heap, users_cache,
                   transactions_cache, model, loads, request, response>>

Assign(t) ==
    /\ th[t].pc = "assign"
    /\ heap' = Append(heap, <<>>)
    /\ SetCache(th[t].which, Len(heap) + 1)
    /\ loads' = [loads EXCEPT ![th[t].which] = @ + 1]
    /\ th' = [th EXCEPT ![t] = [@ EXCEPT !.pc = "exists"]]
    /\ UNCHANGED <<usersFile, transactionsFile, embed, threshold, model, request, response>>

Exists(t) ==
    /\ th[t].pc = "exists"
    /\ th' = [th EXCEPT ![t] = IF ~FileOf(th[t].which).exists
                               THEN Returned(t, CacheOf(th[t].which))
                               ELSE [@ EXCEPT !.pc = "read",
                                              !.rows = FileRows(FileOf(th[t].which))]]
    /\ UNCHANGED <<usersFile, transactionsFile, embed, threshold, heap, users_cache,
                   transactions_cache, model, loads, request, response>>

\* cls._cache[row['id']] = row[...] stores into whatever object the attribute
\* holds now
Read(t) ==
    /\ th[t].pc = "read"
    /\ IF th[t].rows = <<>>
       THEN /\ th' = [th EXCEPT ![t] = [@ EXCEPT !.pc = "ret"]]
            /\ heap' = heap
       ELSE /\ heap' = [heap EXCEPT ![CacheOf(th[t].which)] =
                           DictSet(@, Head(th[t].rows).id, Head(th[t].rows).val)]
            /\ th' = [th EXCEPT ![t] = [@ EXCEPT !.rows = Tail(@)]]
    /\ UNCHANGED <<usersFile, transactionsFile, embed, threshold, users_cache,
                   transactions_cache, model, loads, request, response>>

Return(t) ==
    /\ th[t].pc = "ret"
    /\ th' = [th EXCEPT ![t] = Returned(t, CacheOf(th[t].which))]
    /\ UNCHANGED <<usersFile, transactionsFile, embed, threshold, heap, users_cache,
                   transactions_cache, model, loads, request, response>>

\* search_transactions: if not transactions: return [], 0
EmptyCheck(t) ==
    /\ th[t].pc = "empty_check"
    /\ th' = [th EXCEPT ![t] =
                 IF heap[th[t].transactions] = <<>>
                 THEN [@ EXCEPT !.pc = "done",
                                !.resp = SearchEndpoint(th[t].arg, <<>>, embed, threshold)]
                 ELSE [@ EXCEPT !.pc = "model_check"]]
    /\ UNCHANGED <<usersFile, transactionsFile, embed, threshold, heap, users_cache,
                   transactions_cache, model, loads, request, response>>

\* get_model: if cls._model is None
ModelCheck(t) ==
    /\ th[t].pc = "model_check"
    /\ th' = [th EXCEPT ![t] = [@ EXCEPT !.pc = IF model = None THEN "model_load"
                                                ELSE "score_search"]]
    /\ UNCHANGED <<usersFile, transactionsFile, embed, threshold, heap, users_cache,
                   transactions_cache, model, loads, request, response>>

\* get_model: cls._model = SentenceTransformer(settings.MODEL_NAME)
ModelLoad(t) ==
    /\ th[t].pc = "model_load"
    /\ model' = loads.model + 1
    /\ loads' = [loads EXCEPT !.model = @ + 1]
    /\ th' = [th EXCEPT ![t] = [@ EXCEPT !.pc = "score_search"]]
    /\ UNCHANGED <<usersFile, transactionsFile, embed, threshold, heap, users_cache,
                   transactions_cache, request, response>>

ScoreSearch(t) ==
    /\ th[t].pc = "score_search"
    /\ th' = [th EXCEPT ![t] =
                 [@ EXCEPT !.pc = "done",
                           !.resp = SearchEndpoint(th[t].arg, heap[th[t].transactions],
                                                   embed, threshold)]]
    /\ UNCHANGED <<usersFile, transactionsFile, embed, threshold, heap, users_cache,
                   transactions_cache, model, loads, request, response>>

ScoreMatch(t) ==
    /\ th[t].pc = "score_match"
    /\ th' = [th EXCEPT ![t] =
                 [@ EXCEPT !.pc = "done",
                           !.resp = MatchUsersEndpoint(th[t].arg, heap[th[t].transactions],
                                                       heap[th[t].users])]]
    /\ UNCHANGED <<usersFile, transactionsFile, embed, threshold, heap, users_cache,
                   transactions_cache, model, loads, request, response>>

\* for ... in users.items() raises RuntimeError (dictionary changed size during
\* iteration) when another thread's loader stores a new key between two of its
\* iterations; the endpoint turns it into a 500
ScoreMatchRaises(t) ==
    /\ th[t].pc = "score_match"
    /\ DictHas(heap[th[t].transactions], th[t].arg)
    /\ Strip(DictGet(heap[th[t].transactions], th[t].arg)) # <<>>
    /\ heap[th[t].users] # <<>>
    /\ \E o \in Threads \ {t} :
          /\ th[o].pc = "read" /\ th[o].which = "users" /\ th[o].rows # <<>>
          /\ users_cache = th[t].users
          /\ ~DictHas(heap[users_cache], Head(th[o].rows).id)
    /\ th' = [th EXCEPT ![t] = [@ EXCEPT !.pc = "done", !.resp = [status |-> 500]]]
    /\ UNCHANGED <<usersFile, transactionsFile, embed, threshold, heap, users_cache,
                   transactions_cache, model, loads, request, response>>

ThreadUsersFiles ==
    {NoFile, File(<<[id |-> "u1", val |-> <<"a">>]>>),
     File(<<[id |-> "u1", val |-> <<"a">>], [id |-> "u2", val |-> <<"b">>]>>)}

ThreadTransactionsFiles ==
    {NoFile, File(<<[id |-> <<"t1">>, val |-> <<"a">>]>>),
     File(<<[id |-> <<"t1">>, val |-> <<"a">>], [id |-> <<"t2">>, val |-> <<"b">>]>>)}

InitThreads ==
    /\ usersFile \in ThreadUsersFiles
    /\ transactionsFile \in ThreadTransactionsFiles
    /\ embed = [x \in DocTexts |-> IF x = <<"a">> THEN <<3, 4>> ELSE <<-4, 3>>]
    /\ threshold = DEFAULT_SIMILARITY_THRESHOLD
    /\ heap = <<>>
    /\ users_cache = None
    /\ transactions_cache = None
    /\ model = None
    /\ loads = NoLoads
    /\ request = NoRequest
    /\ response = NoResponse
    /\ th = [t \in Threads |-> IdleThread]

NextThreads ==
    \E t \in Threads :
        \/ \E r \in ThreadRequests : Start(t, r)
        \/ Check(t)
        \/ Assign(t)
        \/ Exists(t)
        \/ Read(t)
        \/ Return(t)
        \/ EmptyCheck(t)
        \/ ModelCheck(t)
        \/ ModelLoad(t)
        \/ ScoreSearch(t)
        \/ ScoreMatch(t)
        \/ ScoreMatchRaises(t)

SpecThreads == InitThreads /\ [][NextThreads]_vars

(***************************************************************************)
(* Properties.  Under SpecMatch and SpecSearch, request and response are   *)
(* the last request served and the answer it got.                          *)
(***************************************************************************)
UsersTable == LoadTable(usersFile)
TransactionsTable == LoadTable(transactionsFile)

MatchAnswered == request.kind = "match" /\ response.status = 200
SearchAnswered == request.kind = "search" /\ response.status = 200

\* the requested transaction exists; its text as stored and as normalised
DocumentFound == MatchAnswered /\ DictHas(TransactionsTable, request.arg)
DocumentText == DictGet(TransactionsTable, request.arg)
NormalizedText == Lower(Strip(DocumentText))
NormalizedLabel(i) == Lower(Strip(UsersTable[i].val))

\* where an entity of the table, or an id, stands in the answer
ResultIds == {response.users[i].id : i \in 1..Len(response.users)}
ResultIndex(id) == CHOOSE i \in 1..Len(response.users) : response.users[i].id = id
TableIndex(id) == CHOOSE i \in 1..Len(UsersTable) : UsersTable[i].id = id
Reported(id) == response.users[ResultIndex(id)].match_metric

\* the five stages, each stated on its own; 0.70 is the fuzzy threshold
SeventyPercent == [n |-> 7, d |-> 10]
TokenSet(text) == {Split(text)[i] : i \in 1..Len(Split(text))}
ExactStage(label, text) == label = text
TokenStage(label, text) == label \in TokenSet(text)
SubstringStage(label, text) == IsSubstring(label, text)
BestTokenStage(label, text) ==
    \E tok \in TokenSet(text) : RLeq(SeventyPercent, TokenSortRatio(label, tok))
WholeTextStage(label, text) == RLeq(SeventyPercent, TokenSortRatio(label, text))

SomeStageFires(label, text) ==
    \/ ExactStage(label, text) \/ TokenStage(label, text) \/ SubstringStage(label, text)
    \/ BestTokenStage(label, text) \/ WholeTextStage(label, text)

BestTokenRatio(label, text) ==
    LET ratios == {TokenSortRatio(label, tok) : tok \in TokenSet(text)}
    IN CHOOSE r \in ratios : \A o \in ratios : RLeq(o, r)

\* the score of the earliest stage that fires
EarliestStageScore(label, text) ==
    IF ExactStage(label, text) THEN [n |-> 1, d |-> 1]
    ELSE IF TokenStage(label, text) THEN [n |-> 95, d |-> 100]
    ELSE IF SubstringStage(label, text)
         THEN [n |-> 85 * Len(text) + 10 * Len(label), d |-> 100 * Len(text)]
    ELSE IF BestTokenStage(label, text) THEN BestTokenRatio(label, text)
    ELSE TokenSortRatio(label, text)

\* the entity's score is produced by the substring stage
BySubstringStage(label, text) ==
    /\ ~ExactStage(label, text) /\ ~TokenStage(label, text)
    /\ SubstringStage(label, text)

\* C1: on an empty document table search_transactions returns an empty list
\* and a token count equal to the number of whitespace-delimited tokens of
\* the query.
C1_EmptyTableKeepsTokenCount ==
    (SearchAnswered /\ TransactionsTable = <<>>) =>
        /\ response.transactions = <<>>
        /\ response.total_number_of_tokens_used = Len(Split(request.arg))

\* the unrounded normalised score of a returned transaction is above the threshold
UnroundedAbove(id) ==
    LET sim == Similarity(embed[request.arg], embed[DictGet(TransactionsTable, id)])
        A == 1000 * (sim.dot + sim.norms) - 2 * threshold * sim.norms
    IN A > 0 \/ (A = 0 /\ 1000 > 2 * threshold)

\* C2 as stated: no returned entry reports a (2-decimal) score less than or
\* equal to the threshold.
C2_ReportedScoreAboveThreshold ==
    SearchAnswered =>
        \A i \in 1..Len(response.transactions) :
            response.transactions[i].embedding * 10 > threshold

\* C2 as amended: every returned entry has an unrounded normalised score
\* strictly above the threshold, and its reported score is more than
\* threshold - 0.005.
C2_UnroundedScoreAboveThreshold ==
    SearchAnswered =>
        \A i \in 1..Len(response.transactions) :
            /\ UnroundedAbove(response.transactions[i].id)
            /\ response.transactions[i].embedding * 10 + 5 > threshold

\* a returned entry reports a score that is not above the threshold
C2_Witness ==
    /\ SearchAnswered
    /\ \E i \in 1..Len(response.transactions) :
          response.transactions[i].embedding * 10 <= threshold

\* C3: the list returned by match_users is in non-increasing order of the
\* reported (rounded) match_metric.
C3_SortedByReportedScore ==
    MatchAnswered =>
        \A i \in 1..(Len(response.users) - 1) :
            response.users[i].match_metric >= response.users[i + 1].match_metric

\* two results with different reported scores
C3_Witness ==
    /\ MatchAnswered
    /\ Len(response.users) = 2
    /\ response.users[1].match_metric > response.users[2].match_metric

\* C4: every reported score lies in [0, 1], and a score produced by the
\* substring stage does not exceed 0.95.
C4_ScoreInUnitInterval ==
    DocumentFound =>
        \A i \in 1..Len(response.users) :
            /\ response.users[i].match_metric \in 0..100
            /\ BySubstringStage(NormalizedLabel(TableIndex(response.users[i].id)),
                                NormalizedText)
                  => response.users[i].match_metric <= 95

\* a result produced by the substring stage, for a label of at least one character
C4_Witness ==
    /\ DocumentFound
    /\ \E i \in 1..Len(response.users) :
          LET label == NormalizedLabel(TableIndex(response.users[i].id))
          IN BySubstringStage(label, NormalizedText) /\ Len(label) > 0

\* C5 as stated: an entity whose normalised label equals the normalised
\* document text is returned with score 1.0 and is the first element.
C5_ExactMatchIsFirst ==
    DocumentFound =>
        \A k \in 1..Len(UsersTable) :
            NormalizedLabel(k) = NormalizedText =>
                /\ Len(response.users) > 0
                /\ response.users[1] = [id |-> UsersTable[k].id, match_metric |-> 100]

\* C5 as amended: when the normalised document text is not empty, such an
\* entity is returned with score 1.0 and every element before it in the list
\* also reports 1.0.
C5_ExactMatchRanksTop ==
    (DocumentFound /\ NormalizedText # <<>>) =>
        \A k \in 1..Len(UsersTable) :
            NormalizedLabel(k) = NormalizedText =>
                /\ UsersTable[k].id \in ResultIds
                /\ Reported(UsersTable[k].id) = 100
                /\ \A i \in 1..ResultIndex(UsersTable[k].id) :
                       response.users[i].match_metric = 100

\* an exact match that is returned after another entity
C5_Witness ==
    /\ DocumentFound /\ NormalizedText # <<>>
    /\ \E k \in 1..Len(UsersTable) :
          /\ NormalizedLabel(k) = NormalizedText
          /\ UsersTable[k].id \in ResultIds
          /\ ResultIndex(UsersTable[k].id) = 2

\* C6: an id absent from the document table is answered with users = [] and
\* total_number_of_matches = 0, not with an error.
C6_UnknownIdIsEmpty ==
    (request.kind = "match" /\ ~DictHas(TransactionsTable, request.arg)) =>
        response = [status |-> 200, users |-> <<>>, total_number_of_matches |-> 0]

\* an unknown id asked of non-empty tables
C6_Witness ==
    /\ request.kind = "match" /\ ~DictHas(TransactionsTable, request.arg)
    /\ TransactionsTable # <<>> /\ UsersTable # <<>>
    /\ response.status = 200

\* C7: each lazy initialisation (users table, transactions table, model) is
\* executed at most once, whatever the interleaving of the threads.
C7_InitialisedAtMostOnce ==
    loads.users <= 1 /\ loads.transactions <= 1 /\ loads.model <= 1

\* C10: every call of get_users or get_transactions that has returned handed
\* its caller the fully loaded table.
C10_ReturnedTableIsComplete ==
    \A t \in DOMAIN th :
        /\ th[t].tReturned => th[t].tSnap = TransactionsTable
        /\ th[t].uReturned => th[t].uSnap = UsersTable

\* C8 for one document text: an entity is in the result exactly if some
\* stage fires for it, with the score of the earliest such stage.
StagesDecideResult(text) ==
    \A k \in 1..Len(UsersTable) :
        LET label == NormalizedLabel(k)
            id == UsersTable[k].id
        IN /\ (id \in ResultIds) <=> SomeStageFires(label, text)
           /\ id \in ResultIds => Reported(id) = Round2(EarliestStageScore(label, text))

\* C8 as stated: for every non-empty document text.
C8_StagesDecideNonEmptyText ==
    (DocumentFound /\ DocumentText # <<>>) => StagesDecideResult(NormalizedText)

\* C8 as amended: for every document text that is not empty once trimmed.
C8_StagesDecideNonBlankText ==
    (DocumentFound /\ NormalizedText # <<>>) => StagesDecideResult(NormalizedText)

\* one entity returned by a fuzzy stage and one for which no stage fires
C8_Witness ==
    /\ DocumentFound /\ NormalizedText # <<>>
    /\ \E k, m \in 1..Len(UsersTable) :
          /\ UsersTable[k].id \in ResultIds
          /\ ~ExactStage(NormalizedLabel(k), NormalizedText)
          /\ ~TokenStage(NormalizedLabel(k), NormalizedText)
          /\ ~SubstringStage(NormalizedLabel(k), NormalizedText)
          /\ UsersTable[m].id \notin ResultIds

\* C9 as stated: two entities with the same reported score appear in the
\* order in which the entity table iterates them.
C9_TiesOnReportedScoreInTableOrder ==
    DocumentFound =>
        \A i, j \in 1..Len(response.users) :
            (i < j /\ response.users[i].match_metric = response.users[j].match_metric)
                => TableIndex(response.users[i].id) < TableIndex(response.users[j].id)

UnroundedScore(id) ==
    UserScore(UsersTable[TableIndex(id)].val, NormalizedText, Split(NormalizedText))

\* C9 as amended: two entities with the same unrounded score appear in the
\* order in which the entity table iterates them.
C9_TiesOnUnroundedScoreInTableOrder ==
    DocumentFound =>
        \A i, j \in 1..Len(response.users) :
            (i < j /\ REq(UnroundedScore(response.users[i].id),
                          UnroundedScore(response.users[j].id)))
                => TableIndex(response.users[i].id) < TableIndex(response.users[j].id)

\* two results with the same unrounded score
C9_Witness ==
    /\ DocumentFound
    /\ Len(response.users) = 2
    /\ REq(UnroundedScore(response.users[1].id), UnroundedScore(response.users[2].id))

====
